---- MODULE Spec2Model ----
(***************************************************************************)
(* Model of scripts/dependency_version.py: the script reads a manifest,    *)
(* takes the first `version = "..."` line as the canonical version,        *)
(* rewrites the version field of every path dependency line and writes the *)
(* buffer back over the same file.                                         *)
(*                                                                         *)
(* Text is a sequence of one-character strings.  The two regular           *)
(* expressions are evaluated character by character, the way re evaluates  *)
(* them, and the text-mode file object's newline translation is part of    *)
(* reading and writing.                                                    *)
(***************************************************************************)
EXTENDS Integers, Sequences, FiniteSets, TLC

\* ------------------------------------------------------------------ bounds
\* Number of lines of the manifests the model is run on.
MaxLines == 3
\* Number of lines of the manifests two concurrent invocations are run on.
MaxRaceLines == 2
\* Number of bytes a failing write may have put on disk before it failed.
MaxPartial == 1
\* Number of successive invocations of the script in the sequential model.
MaxRuns == 2

\* -------------------------------------------------------------- characters
LF == "\n"
CR == "\r"

Lower ==
    {"a","b","c","d","e","f","g","h","i","j","k","l","m",
     "n","o","p","q","r","s","t","u","v","w","x","y","z"}
Upper ==
    {"A","B","C","D","E","F","G","H","I","J","K","L","M",
     "N","O","P","Q","R","S","T","U","V","W","X","Y","Z"}
Digit ==
    {"0","1","2","3","4","5","6","7","8","9"}

\* [a-zA-Z0-9_]   (group 1 of dependencyPattern)
IdentClass == Lower \cup Upper \cup Digit \cup {"_"}
\* [./a-zA-Z0-9_] (group 2 of dependencyPattern)
PathClass == IdentClass \cup {".", "/"}
\* [.a-zA-Z0-9_]  (group 3 of dependencyPattern, group 1 of versionPattern)
VersionClass == IdentClass \cup {"."}

\* The literal pieces of the two patterns.
\*   ' = { path = "'
LitPath == <<" ","="," ","{"," ","p","a","t","h"," ","="," ","\"">>
\*   '", version = "'
LitVersion == <<"\"",","," ","v","e","r","s","i","o","n"," ","="," ","\"">>
\*   '" }'
LitClose == <<"\""," ","}">>
\*   'version = "'
LitVersionDecl == <<"v","e","r","s","i","o","n"," ","="," ","\"">>
\*   '"'
LitQuote == <<"\"">>

\* ------------------------------------------------------- regular expressions
\* s has the literal lit at position i.
HasLit(s, i, lit) ==
    /\ i + Len(lit) - 1 <= Len(s)
    /\ SubSeq(s, i, i + Len(lit) - 1) = lit

\* Length of the longest run of characters of class starting at position i:
\* what `[class]*` consumes.  In both patterns the character that has to
\* follow the run is outside the class, so the greedy run is the only length
\* with which the rest of the pattern can match and re never backtracks to a
\* shorter one.
RECURSIVE Span(_, _, _)
Span(s, i, class) ==
    IF i <= Len(s) /\ s[i] \in class THEN 1 + Span(s, i + 1, class) ELSE 0

\* '^' under re.MULTILINE: the start of the text or just after a newline.
AtLineStart(s, i) == i = 1 \/ s[i - 1] = LF

\* dependencyPattern tried at position i: whether it matches, its three
\* groups and the position after the match.
DependencyMatch(s, i) ==
    LET a == i + Span(s, i, IdentClass)
        b == a + Len(LitPath)
        c == b + Span(s, b, PathClass)
        d == c + Len(LitVersion)
        e == d + Span(s, d, VersionClass)
        ok == /\ AtLineStart(s, i)
              /\ HasLit(s, a, LitPath)
              /\ HasLit(s, c, LitVersion)
              /\ HasLit(s, e, LitClose)
    IN  IF ok
        THEN [ok |-> TRUE,
              g1 |-> SubSeq(s, i, a - 1),
              g2 |-> SubSeq(s, b, c - 1),
              g3 |-> SubSeq(s, d, e - 1),
              end |-> e + Len(LitClose)]
        ELSE [ok |-> FALSE, g1 |-> <<>>, g2 |-> <<>>, g3 |-> <<>>, end |-> i]

\* versionPattern tried at position i.
VersionMatch(s, i) ==
    LET a == i + Len(LitVersionDecl)
        b == a + Span(s, a, VersionClass)
        ok == /\ AtLineStart(s, i)
              /\ HasLit(s, i, LitVersionDecl)
              /\ HasLit(s, b, LitQuote)
    IN  IF ok
        THEN [ok |-> TRUE, g1 |-> SubSeq(s, a, b - 1), end |-> b + Len(LitQuote)]
        ELSE [ok |-> FALSE, g1 |-> <<>>, end |-> i]

\* The first position after i at which '^' holds, Len(s) + 1 if there is
\* none.  Both patterns begin with '^', so where the scan finds no match at
\* i, no position before this one can match either and the scan resumes
\* here.
NextStart(s, i) ==
    LET c == { j \in (i + 1)..Len(s) : s[j - 1] = LF }
    IN  IF c = {} THEN Len(s) + 1
        ELSE CHOOSE j \in c : \A k \in c : j <= k

\* versionPattern.findall(s) from position i on: group 1 of every
\* non-overlapping match, left to right.
RECURSIVE FindAllFrom(_, _)
FindAllFrom(s, i) ==
    IF i > Len(s) THEN <<>>
    ELSE LET m == VersionMatch(s, i)
         IN  IF m.ok THEN <<m.g1>> \o FindAllFrom(s, m.end)
                     ELSE FindAllFrom(s, NextStart(s, i))

\* findall with a fallback: an empty version where nothing is declared.
findall_lenient(s) ==
    IF FindAllFrom(s, 1) = <<>> THEN << <<>> >> ELSE FindAllFrom(s, 1)

findall(s) == FindAllFrom(s, 1)

\* The f-string with `version="..."` written without its blanks.
replace_tight(m, version) ==
    m.g1 \o LitPath \o m.g2
         \o <<"\"", ",", " ", "v","e","r","s","i","o","n", "=", "\"">>
         \o version \o LitClose

\* replace(match): the f-string, whose doubled braces print single ones.
replace(m, version) ==
    m.g1 \o LitPath \o m.g2 \o LitVersion \o version \o LitClose

\* re.sub(dependencyPattern, replace, s) from position i on: every
\* non-overlapping match, left to right, gives way to replace(match); every
\* other character is copied.
RECURSIVE SubFrom(_, _, _)
SubFrom(s, i, version) ==
    IF i > Len(s) THEN <<>>
    ELSE LET m == DependencyMatch(s, i)
             j == NextStart(s, i)
         IN  IF m.ok THEN replace(m, version) \o SubFrom(s, m.end, version)
                     ELSE SubSeq(s, i, j - 1) \o SubFrom(s, j, version)

\* re.sub with count=1: only the first match is replaced.
RECURSIVE SubOnceFrom(_, _, _)
SubOnceFrom(s, i, version) ==
    IF i > Len(s) THEN <<>>
    ELSE LET m == DependencyMatch(s, i)
             j == NextStart(s, i)
         IN  IF m.ok THEN replace(m, version) \o SubSeq(s, m.end, Len(s))
                     ELSE SubSeq(s, i, j - 1) \o SubOnceFrom(s, j, version)

sub_once(s, version) == SubOnceFrom(s, 1, version)

sub(s, version) == SubFrom(s, 1, version)

\* ------------------------------------------------------------ text-mode I/O
\* A file opened with newline="": the bytes reach the program as they are.
TranslateRead_raw(bytes) == bytes

\* f.read() of a file opened with mode "r": universal newlines, so "\r\n"
\* and a lone "\r" reach the program as "\n".
TranslateRead(bytes) ==
    LET kept == SelectSeq([i \in 1..Len(bytes) |-> i],
                          LAMBDA i : ~(bytes[i] = LF /\ i > 1 /\ bytes[i - 1] = CR))
    IN  [k \in 1..Len(kept) |->
            IF bytes[kept[k]] = CR THEN LF ELSE bytes[kept[k]]]

\* write(text) on a file opened with mode "w": every "\n" is written as the
\* platform's line separator.
RECURSIVE TranslateWrite(_, _)
TranslateWrite(text, sep) ==
    LET c == { j \in 1..Len(text) : text[j] = LF }
        j == CHOOSE x \in c : \A k \in c : x <= k
    IN  IF c = {} THEN text
        ELSE SubSeq(text, 1, j - 1) \o sep
             \o TranslateWrite(SubSeq(text, j + 1, Len(text)), sep)

\* The disk content after `bytes` are written at offset 0 of a file holding
\* `old`: the handle opened with "w" starts at offset 0 and what lies beyond
\* the written bytes stays.
\* A file opened with mode "a": the bytes go to the end of the file.
Overwrite_append(old, bytes) == old \o bytes

Overwrite(old, bytes) ==
    bytes \o SubSeq(old, Len(bytes) + 1, Len(old))

\* Index -1 instead of index 0.
ExtractVersion_last(s) == findall(s)[Len(findall(s))]

\* Line 10: the first element of findall's result.
ExtractVersion(s) == findall(s)[1]

\* A file opened with mode "r+": nothing is truncated.
Truncate_keep(old) == old

\* open(path, "w") leaves the file empty.
Truncate(old) == <<>>

\* ----------------------------------------------------------------- inputs
\* Lines the manifests are made of: version declarations, dependency
\* declarations and lines that come close to one or the other.
VersionLine(v) == LitVersionDecl \o v \o LitQuote
DepLine(id, path, ver) == id \o LitPath \o path \o LitVersion \o ver \o LitClose

LineKinds ==
    { \* version = "1"
      VersionLine(<<"1">>),
      \* version = "2.0"
      VersionLine(<<"2", ".", "0">>),
      \* version = "3-r"          (no version declaration: '-')
      VersionLine(<<"3", "-", "r">>),
      \* a = { path = "./b", version = "0" }
      DepLine(<<"a">>, <<".", "/", "b">>, <<"0">>),
      \* version = { path = "", version = "2.0" } #
      DepLine(<<"v","e","r","s","i","o","n">>, <<>>, <<"2", ".", "0">>) \o <<" ", "#">>,
      \* e-f = { path = "g", version = "0" }   (no dependency declaration: '-')
      DepLine(<<"e", "-", "f">>, <<"g">>, <<"0">>),
      \* an empty line
      <<>> }

\* The line terminators a manifest may use.
Terminators == { <<LF>>, <<CR, LF>>, <<CR>> }
\* os.linesep of the platforms the script runs on.
LineSeps == { <<LF>>, <<CR, LF>> }

RECURSIVE Join(_, _)
Join(ls, eol) ==
    IF ls = <<>> THEN <<>>
    ELSE IF Len(ls) = 1 THEN ls[1]
    ELSE ls[1] \o eol \o Join(Tail(ls), eol)

Manifests(n) ==
    { Join(ls, eol) : ls \in UNION { [1..k -> LineKinds] : k \in 0..n },
                      eol \in Terminators }

\* ------------------------------------------------------------------ state
Procs == {1, 2}

VARIABLES
    file,      \* the bytes of the manifest on disk
    linesep,   \* os.linesep
    orig,      \* the bytes on disk before the first invocation
    snap,      \* the bytes on disk when the current invocation started
    runs,      \* invocations started one after the other
    pc,        \* per process: the statement it is at
    data,      \* per process: data
    version,   \* per process: version
    newData,   \* per process: newData
    hd,        \* per process: the handles it holds on the file
    log,       \* per process: its opens and closes of the file, in order
    err        \* per process: the exception that ended it

vars == <<file, linesep, orig, snap, runs, pc, data, version, newData, hd, log, err>>

Fresh(f) ==
    /\ data = [p \in Procs |-> <<>>]
    /\ version = [p \in Procs |-> <<>>]
    /\ newData = [p \in Procs |-> <<>>]
    /\ hd = [p \in Procs |-> {}]
    /\ log = [p \in Procs |-> <<>>]
    /\ err = [p \in Procs |-> "none"]
    /\ file = f /\ orig = f /\ snap = f
    /\ runs = 1

\* One invocation on a manifest.
Init ==
    /\ \E f \in Manifests(MaxLines) : Fresh(f)
    /\ linesep \in LineSeps
    /\ pc = [p \in Procs |-> IF p = 1 THEN "start" ELSE "off"]

\* ---------------------------------------------------------------- actions
\* Lines 7-8: f = open(path, "r"); data = f.read().  f is never closed.
Read(p) ==
    /\ pc[p] = "start"
    /\ hd' = [hd EXCEPT ![p] = @ \cup {"r"}]
    /\ log' = [log EXCEPT ![p] = Append(@, "open_r")]
    /\ data' = [data EXCEPT ![p] = TranslateRead(file)]
    /\ pc' = [pc EXCEPT ![p] = "extract"]
    /\ UNCHANGED <<file, linesep, orig, snap, runs, version, newData, err>>

\* Lines 7-8 raising: open fails (no handle), or read fails on bytes that
\* are no text (the handle goes with the process).
FailRead(p) ==
    /\ pc[p] = "start"
    /\ \E opened \in BOOLEAN :
          log' = [log EXCEPT ![p] =
                     IF opened THEN @ \o <<"open_r", "close_r">> ELSE @]
    /\ pc' = [pc EXCEPT ![p] = "failed"]
    /\ err' = [err EXCEPT ![p] = "IOError:read"]
    /\ UNCHANGED <<file, linesep, orig, snap, runs, data, version, newData, hd>>

\* Line 10: version = versionPattern.findall(data)[0]; IndexError on an
\* empty list ends the process, which closes f.
Extract(p) ==
    /\ pc[p] = "extract"
    /\ IF findall(data[p]) = <<>>
       THEN /\ pc' = [pc EXCEPT ![p] = "failed"]
            /\ err' = [err EXCEPT ![p] = "IndexError"]
            /\ hd' = [hd EXCEPT ![p] = {}]
            /\ log' = [log EXCEPT ![p] = Append(@, "close_r")]
            /\ UNCHANGED version
       ELSE /\ version' = [version EXCEPT ![p] = ExtractVersion(data[p])]
            /\ pc' = [pc EXCEPT ![p] = "sub"]
            /\ UNCHANGED <<err, hd, log>>
    /\ UNCHANGED <<file, linesep, orig, snap, runs, data, newData>>

\* Line 15: newData = re.sub(dependencyPattern, replace, data).
Rewrite(p) ==
    /\ pc[p] = "sub"
    /\ newData' = [newData EXCEPT ![p] = sub(data[p], version[p])]
    /\ pc' = [pc EXCEPT ![p] = "openw"]
    /\ UNCHANGED <<file, linesep, orig, snap, runs, data, version, hd, log, err>>

\* Line 16, open(path, "w"): the file is truncated.
OpenWrite(p) ==
    /\ pc[p] = "openw"
    /\ file' = Truncate(file)
    /\ hd' = [hd EXCEPT ![p] = @ \cup {"w"}]
    /\ log' = [log EXCEPT ![p] = Append(@, "open_w")]
    /\ pc' = [pc EXCEPT ![p] = "write"]
    /\ UNCHANGED <<linesep, orig, snap, runs, data, version, newData, err>>

\* Line 16, open(path, "w") raising: nothing is truncated.
FailOpenWrite(p) ==
    /\ pc[p] = "openw"
    /\ pc' = [pc EXCEPT ![p] = "failed"]
    /\ err' = [err EXCEPT ![p] = "IOError:open"]
    /\ hd' = [hd EXCEPT ![p] = {}]
    /\ log' = [log EXCEPT ![p] = Append(@, "close_r")]
    /\ UNCHANGED <<file, linesep, orig, snap, runs, data, version, newData>>

\* Line 16, .write(newData): the buffer reaches the disk from offset 0 and
\* the unnamed file object is closed as the statement ends.
Write(p) ==
    /\ pc[p] = "write"
    /\ file' = Overwrite(file, TranslateWrite(newData[p], linesep))
    /\ hd' = [hd EXCEPT ![p] = @ \ {"w"}]
    /\ log' = [log EXCEPT ![p] = Append(@, "close_w")]
    /\ pc' = [pc EXCEPT ![p] = "exit"]
    /\ UNCHANGED <<linesep, orig, snap, runs, data, version, newData, err>>

\* Line 16, .write(newData) raising after k bytes reached the disk.
FailWrite(p) ==
    /\ pc[p] = "write"
    /\ LET bytes == TranslateWrite(newData[p], linesep)
       IN  \E k \in 0..MaxPartial :
              /\ k <= Len(bytes)
              /\ file' = Overwrite(file, SubSeq(bytes, 1, k))
    /\ pc' = [pc EXCEPT ![p] = "failed"]
    /\ err' = [err EXCEPT ![p] = "IOError:write"]
    /\ hd' = [hd EXCEPT ![p] = {}]
    /\ log' = [log EXCEPT ![p] = @ \o <<"close_w", "close_r">>]
    /\ UNCHANGED <<linesep, orig, snap, runs, data, version, newData>>

\* The end of the script: the interpreter exits and f goes with it.
Exit(p) ==
    /\ pc[p] = "exit"
    /\ hd' = [hd EXCEPT ![p] = {}]
    /\ log' = [log EXCEPT ![p] = Append(@, "close_r")]
    /\ pc' = [pc EXCEPT ![p] = "done"]
    /\ UNCHANGED <<file, linesep, orig, snap, runs, data, version, newData, err>>

\* The script is started again on the file the last invocation left.
Rerun ==
    /\ pc[1] = "done"
    /\ runs < MaxRuns
    /\ runs' = runs + 1
    /\ snap' = file
    /\ pc' = [pc EXCEPT ![1] = "start"]
    /\ data' = [data EXCEPT ![1] = <<>>]
    /\ version' = [version EXCEPT ![1] = <<>>]
    /\ newData' = [newData EXCEPT ![1] = <<>>]
    /\ log' = [log EXCEPT ![1] = <<>>]
    /\ UNCHANGED <<file, linesep, orig, hd, err>>

Next ==
    \/ Read(1)
    \/ FailRead(1)
    \/ Extract(1)
    \/ Rewrite(1)
    \/ OpenWrite(1)
    \/ FailOpenWrite(1)
    \/ Write(1)
    \/ FailWrite(1)
    \/ Exit(1)
    \/ Rerun

Spec == Init /\ [][Next]_vars

\* What one invocation without I/O failure leaves on disk: lines 7-16.
RunResult(bytes, sep) ==
    LET d == TranslateRead(bytes)
    IN  IF findall(d) = <<>> THEN bytes
        ELSE TranslateWrite(sub(d, ExtractVersion(d)), sep)

\* ------------------------------------------- two invocations on one manifest
InitRace ==
    /\ \E f \in Manifests(MaxRaceLines) : Fresh(f)
    /\ linesep \in LineSeps
    /\ pc = [p \in Procs |-> "start"]

\* No I/O failure; each invocation's read, truncation and write is one step.
NextRace ==
    \E p \in Procs :
        \/ Read(p)
        \/ Extract(p)
        \/ Rewrite(p)
        \/ OpenWrite(p)
        \/ Write(p)
        \/ Exit(p)

SpecRace == InitRace /\ [][NextRace]_vars

\* ------------------------------------------------- vocabulary of the claims
\* The lines of a text: the pieces between its newlines.
RECURSIVE SplitLF(_)
SplitLF(text) ==
    LET c == { j \in 1..Len(text) : text[j] = LF }
        j == CHOOSE x \in c : \A k \in c : x <= k
    IN  IF c = {} THEN <<text>>
        ELSE <<SubSeq(text, 1, j - 1)>> \o SplitLF(SubSeq(text, j + 1, Len(text)))

\* The lines of a file, each without its terminator ("\n", "\r\n" or "\r").
FileLines(bytes) == SplitLF(TranslateRead(bytes))

\* The lines of a file, each with the bytes of its terminator.
RECURSIVE RawLines(_)
RawLines(bytes) ==
    LET c == { j \in 1..Len(bytes) : bytes[j] \in {LF, CR} }
        j == CHOOSE x \in c : \A k \in c : x <= k
        e == IF bytes[j] = CR /\ j < Len(bytes) /\ bytes[j + 1] = LF THEN j + 1 ELSE j
    IN  IF c = {} THEN <<bytes>>
        ELSE <<SubSeq(bytes, 1, e)>> \o RawLines(SubSeq(bytes, e + 1, Len(bytes)))

\* A line is a dependency declaration / a version declaration.
IsDepLine(line) == DependencyMatch(line, 1).ok
IsVersionLine(line) == VersionMatch(line, 1).ok

HasVersionDecl(bytes) ==
    LET ls == FileLines(bytes) IN \E k \in DOMAIN ls : IsVersionLine(ls[k])
HasDepDecl(bytes) ==
    LET ls == FileLines(bytes) IN \E k \in DOMAIN ls : IsDepLine(ls[k])

\* The value of the first version declaration among the lines ls, in
\* document order.
FirstDeclared(ls) ==
    LET k == CHOOSE x \in DOMAIN ls :
                 /\ IsVersionLine(ls[x])
                 /\ \A y \in 1..(x - 1) : ~IsVersionLine(ls[y])
    IN  VersionMatch(ls[k], 1).g1

Terminated(p) == pc[p] \in {"done", "failed"}
IsPrefix(a, b) == Len(a) <= Len(b) /\ SubSeq(b, 1, Len(a)) = a

\* ----------------------------------------------------------------- claims
\* C1 (idempotence): when the script has been run again on the file a
\* completed run left, the content after the later run is the content that
\* run started from.
Idempotence ==
    runs >= 2 /\ pc[1] = "done" => file = snap

\* A second run has completed on a file whose dependency lines the first
\* run rewrote.
Idempotence_Witness ==
    /\ runs = 2 /\ pc[1] = "done"
    /\ snap # orig
    /\ HasDepDecl(snap)

\* C2 (failure before the write step): a run that ends on a failed read or
\* on the lookup error never opened the file for writing and leaves its
\* content as it was; a run on a file without a version declaration ends in
\* one of these two ways.
FailureBeforeWrite ==
    /\ pc[1] = "failed" /\ err[1] \in {"IOError:read", "IndexError"}
          => /\ file = snap
             /\ \A k \in DOMAIN log[1] : log[1][k] # "open_w"
    /\ Terminated(1) /\ ~HasVersionDecl(snap)
          => pc[1] = "failed" /\ err[1] \in {"IOError:read", "IndexError"}

\* The lookup error on a file that has dependency lines to rewrite but no
\* version declaration.
FailureBeforeWrite_Witness ==
    /\ pc[1] = "failed" /\ err[1] = "IndexError"
    /\ HasDepDecl(snap)
    /\ file = snap

\* C3 (selective rewrite), as stated: after a completed run the file has as
\* many lines as before, and every line that is no dependency declaration
\* has the bytes it had, its terminator included.
SelectiveRewrite ==
    pc[1] = "done" =>
        LET I == RawLines(snap)
            O == RawLines(file)
        IN  /\ Len(O) = Len(I)
            /\ \A k \in DOMAIN I :
                  ~IsDepLine(FileLines(snap)[k]) => O[k] = I[k]

\* The same with the terminators left out: this much holds of every run.
SelectiveRewrite_Text ==
    pc[1] = "done" =>
        LET I == FileLines(snap)
            O == FileLines(file)
        IN  /\ Len(O) = Len(I)
            /\ \A k \in DOMAIN I : ~IsDepLine(I[k]) => O[k] = I[k]

\* C4 (field preservation): after a completed run every line that was a
\* dependency declaration reads: its identifier, its path, the version the
\* run extracted, and whatever followed the declaration on that line.
FieldPreservation ==
    pc[1] = "done" =>
        LET I == FileLines(snap)
            O == FileLines(file)
        IN  /\ Len(O) = Len(I)
            /\ \A k \in DOMAIN I :
                  IsDepLine(I[k]) =>
                      LET m == DependencyMatch(I[k], 1)
                      IN  O[k] = m.g1 \o LitPath \o m.g2 \o LitVersion
                                 \o version[1] \o LitClose
                                 \o SubSeq(I[k], m.end, Len(I[k]))

\* A completed run on a file with two dependency declarations, one of them
\* holding another version than the canonical one and one of them followed
\* by more text on its line.
FieldPreservation_Witness ==
    /\ pc[1] = "done" /\ runs = 1
    /\ LET I == FileLines(snap)
       IN  \E k, l \in DOMAIN I :
              /\ k # l
              /\ IsDepLine(I[k]) /\ IsDepLine(I[l])
              /\ DependencyMatch(I[k], 1).g3 # version[1]
              /\ DependencyMatch(I[l], 1).end <= Len(I[l])

\* C5 (first-match policy): once extracted, the version is the value of the
\* first version declaration of the file in document order.
FirstMatchPolicy ==
    pc[1] \in {"sub", "openw", "write", "exit", "done"} =>
        LET ls == FileLines(snap)
        IN  /\ \E k \in DOMAIN ls : IsVersionLine(ls[k])
            /\ version[1] = FirstDeclared(ls)

\* The version has been extracted from a file with two version
\* declarations of different values.
FirstMatchPolicy_Witness ==
    /\ pc[1] = "sub"
    /\ LET I == FileLines(snap)
       IN  \E k, l \in DOMAIN I :
              /\ k < l
              /\ IsVersionLine(I[k]) /\ IsVersionLine(I[l])
              /\ VersionMatch(I[k], 1).g1 # VersionMatch(I[l], 1).g1
              /\ version[1] = VersionMatch(I[k], 1).g1

\* C6 (no-match no-op), as stated: a completed run on a file without a
\* dependency declaration leaves the bytes of the file as they were.
NoMatchNoOp ==
    pc[1] = "done" /\ ~HasDepDecl(snap) => file = snap

\* The same on the text: the buffer is written as it was read, and the file
\* reads back as it read before.
NoMatchNoOp_Text ==
    pc[1] = "done" /\ ~HasDepDecl(snap) =>
        /\ newData[1] = data[1]
        /\ TranslateRead(file) = TranslateRead(snap)

\* C7 (non-atomic commit): the file is empty from the moment it is opened
\* for writing until the buffer is written, and a run that fails in the
\* write leaves on disk a prefix of the bytes it was writing, not the
\* original content.
NonAtomicCommit ==
    /\ pc[1] = "write" => file = <<>>
    /\ pc[1] = "failed" /\ err[1] = "IOError:write"
          => IsPrefix(file, TranslateWrite(newData[1], linesep))

\* The run has failed and the file holds neither what it held nor what the
\* run would have written.
NonAtomicCommit_Witness ==
    /\ pc[1] = "failed" /\ err[1] = "IOError:write"
    /\ file # snap
    /\ file # RunResult(snap, linesep)

\* C8 (resource model), as stated: a completed invocation opened and closed
\* the file for reading and then opened and closed it for writing, and no
\* invocation ever holds two handles on the file.
ResourceModel ==
    \A p \in Procs :
        /\ pc[p] = "done" => log[p] = <<"open_r", "close_r", "open_w", "close_w">>
        /\ Cardinality(hd[p]) <= 1

\* C9 (the rewrite keeps what it was derived from): after a completed run
\* the file still declares a version, the first one declared is the one the
\* run extracted, and a line is a dependency declaration exactly if it was
\* one before.
RewriteKeepsSources ==
    pc[1] = "done" =>
        LET I == FileLines(snap)
            t == TranslateRead(file)
            O == SplitLF(t)
        IN  /\ findall(t) # <<>>
            /\ ExtractVersion(t) = version[1]
            /\ Len(O) = Len(I)
            /\ \A k \in DOMAIN I : IsDepLine(I[k]) <=> IsDepLine(O[k])

\* A completed run that changed a dependency declaration.
RewriteKeepsSources_Witness ==
    /\ pc[1] = "done" /\ runs = 1
    /\ HasDepDecl(snap)
    /\ TranslateRead(file) # TranslateRead(snap)

\* C10 (two invocations on one file): once both invocations have ended,
\* the file holds what one invocation alone leaves of the original content.
RaceOutcome ==
    (\A p \in Procs : Terminated(p)) => file = RunResult(orig, linesep)

\* One invocation read the file while the other had it truncated and ended
\* on the lookup error; the other one completed and changed the file.
RaceOutcome_Witness ==
    /\ pc[1] = "done"
    /\ pc[2] = "failed" /\ err[2] = "IndexError"
    /\ HasVersionDecl(orig)
    /\ file # orig

====
